---- MODULE Spec2Model ----
(***************************************************************************)
(* dav_tools: styled terminal messages and blocking prompts.               *)
(*                                                                         *)
(* A string is a sequence of one-character strings.  A terminal escape     *)
(* sequence (one TextFormat option, decoded) is a single stream element.   *)
(* "CR" and "LF" stand for the carriage return and the line feed.          *)
(* stderr and stdout hold what the facade call in progress (or the last    *)
(* one) has written to the stream since it began.                          *)
(***************************************************************************)
EXTENDS Integers, Sequences, FiniteSets, TLC

\* ------------------------------------------------------------------ bounds
MaxSegs == 2
MaxWidth == 2
MaxOptions == 1
MaxTermLen == 2
MaxCalls == 3
MaxLines == 2
MaxDebugCalls == 10001

\* ------------------------------------------------- TextFormat (escape set)
RESET == "ESC[0m"
BOLD == "ESC[1m"
DIM == "ESC[2m"
ITALIC == "ESC[3m"
BLINK == "ESC[5m"
REVERSE == "ESC[7m"
RED == "ESC[31m"
GREEN == "ESC[32m"
YELLOW == "ESC[33m"
PURPLE == "ESC[35m"
CYAN == "ESC[36m"

Escapes == {RESET, BOLD, DIM, ITALIC, BLINK, REVERSE, RED, GREEN, YELLOW, PURPLE, CYAN}

\* Python's None, for an optional string argument.
None == <<"<None>">>

Spaces(n) == [k \in 1..n |-> " "]

\* --------------------------------------------------------- text_color.py
\* Each option is a bytes constant; decoded, it is one element of the result.
RECURSIVE get_format(_)
get_format(options) ==
    IF options = <<>> THEN <<>>
    ELSE <<Head(options)>> \o get_format(Tail(options))

\* set_format writes each option, decoded, to the file: what the file receives.
set_format(options) == get_format(options)

get_colored_text(text, format_options) ==
    get_format(format_options) \o text \o get_format(<<RESET>>)

print_colored_text(text, format_options, end) ==
    get_colored_text(text, format_options) \o end

ClearLineNoReturn(term_len) == <<"CR">> \o Spaces(term_len)

clear_line(term_len) == <<"CR">> \o Spaces(term_len) \o <<"CR">>

\* ------------------------------------------------------------ messages.py
\* str(x) of a text segment; the segments of the model are strings already.
str(x) == x

line_options(default_text_options, additional_text_options, i) ==
    IF i <= Len(additional_text_options)
    THEN default_text_options \o additional_text_options[i]
    ELSE default_text_options

line_end(text, i) == IF i < Len(text) THEN <<" ">> ELSE <<>>

LinePaddingStyled(line_text, opts, min_len) ==
    min_len - Len(get_colored_text(line_text, opts))

line_padding(line_text, opts, min_len) == min_len - Len(line_text)

message_icon(icon, icon_options, blink) ==
    IF icon = None THEN <<>>
    ELSE print_colored_text(<<"[">>, icon_options \o <<BOLD>>, <<>>)
         \o (IF blink
             THEN print_colored_text(icon, icon_options \o <<BOLD, BLINK>>, <<>>)
             ELSE print_colored_text(icon, icon_options \o <<BOLD>>, <<>>))
         \o print_colored_text(<<"]">>, icon_options \o <<BOLD>>, <<>>)
         \o print_colored_text(<<" ">>, <<>>, <<>>)

RECURSIVE message_text(_, _, _, _, _)
message_text(text, text_min_len, default_text_options, additional_text_options, i) ==
    IF i > Len(text) THEN <<>>
    ELSE LET line_text == str(text[i])
             opts == line_options(default_text_options, additional_text_options, i)
         IN  print_colored_text(line_text, opts, line_end(text, i))
             \o (IF i <= Len(text_min_len)
                    /\ line_padding(line_text, opts, text_min_len[i]) > 0
                 THEN print_colored_text(
                          Spaces(line_padding(line_text, opts, text_min_len[i])),
                          <<>>, <<>>)
                 ELSE <<>>)
             \o message_text(text, text_min_len, default_text_options,
                             additional_text_options, i + 1)

\* _print_colored_text(end=end, file=file, flush=True): the styled print of the
\* empty text, then the terminator.
message_flush(end) == print_colored_text(<<>>, <<>>, end)

\* What one call of message() writes to its file.
message(text, text_min_len, default_text_options, additional_text_options, icon, icon_options, blink, end, term_len) ==
    clear_line(term_len)
    \o message_icon(icon, icon_options, blink)
    \o message_text(text, text_min_len, default_text_options,
                    additional_text_options, 1)
    \o message_flush(end)

\* f'{n:04}': the decimal digits of n, zero-padded on the left to a width of 4.
DigitChars == <<"0", "1", "2", "3", "4", "5", "6", "7", "8", "9">>

RECURSIVE Digits(_)
Digits(n) ==
    IF n < 10 THEN <<DigitChars[n + 1]>>
    ELSE Digits(n \div 10) \o <<DigitChars[(n % 10) + 1]>>

RECURSIVE ZeroPad(_, _)
ZeroPad(ds, width) ==
    IF Len(ds) < width THEN ZeroPad(<<"0">> \o ds, width) ELSE ds

Format03(n) == ZeroPad(Digits(n), 3)

Format04(n) == ZeroPad(Digits(n), 4)

debug_icon(n) == <<"D", "E", "B", "U", "G", " ">> \o Format04(n)

DebugIncrementTwice(c) == c + 2

debug_increment(c) == c + 1

\* critical_error's exit_code parameter: 1 when the caller gives none.
NotGiven == 0 - 1

ExitCodeAlwaysOne(c) == 1

critical_error_exit_code(c) == IF c = NotGiven THEN 1 ELSE c

\* str.lower() on the letters of the model's alphabet.
UpperCase == <<"A", "B", "E", "M", "N", "Y">>
LowerCase == <<"a", "b", "e", "m", "n", "y">>

lower_char(c) ==
    IF \E k \in 1..Len(UpperCase) : UpperCase[k] = c
    THEN LowerCase[CHOOSE k \in 1..Len(UpperCase) : UpperCase[k] = c]
    ELSE c

lower(s) == [k \in 1..Len(s) |-> lower_char(s[k])]

\* ask_continue's question.
ask_continue_message(text, yes) ==
    (IF text /= None
     THEN text \o <<".", " ", "C", "o", "n", "t", "i", "n", "u", "e", "?">>
     ELSE <<"C", "o", "n", "t", "i", "n", "u", "e", "?">>)
    \o (IF yes THEN <<" ", "(", "Y", "/", "n", ")">>
               ELSE <<" ", "(", "y", "/", "N", ")">>)

AskContinueDecideNoLower(a, yes) ==
    IF a = <<"y">> \/ (Len(a) = 0 /\ yes) THEN "break"
    ELSE IF a = <<"n">> \/ (Len(a) = 0 /\ ~yes) THEN "exit"
    ELSE "loop"

AskContinueDecideOtherExits(a, yes) ==
    IF lower(a) = <<"y">> \/ (Len(a) = 0 /\ yes) THEN "break"
    ELSE "exit"

\* One pass of ask_continue's loop body after ask() returned a.
ask_continue_decide(a, yes) ==
    IF lower(a) = <<"y">> \/ (Len(a) = 0 /\ yes) THEN "break"
    ELSE IF lower(a) = <<"n">> \/ (Len(a) = 0 /\ ~yes) THEN "exit"
    ELSE "loop"

\* ------------------------------------------------------------------ inputs
TermLens == 1..MaxTermLen

Strings == {<<>>, <<"b", "c">>}

SeqsUpTo(S, n) == UNION {[1..k -> S] : k \in 0..n}

Texts == SeqsUpTo(Strings, MaxSegs)
MinLens == SeqsUpTo(0..MaxWidth, MaxSegs)
OptionLists == {<<>>, <<BOLD>>}
TextOptions == SeqsUpTo(OptionLists, MaxOptions)

\* The arguments a caller passes to a message kind.
Args == [text : Texts, text_min_len : MinLens, text_options : TextOptions]

\* One segment and the signature's defaults: text_min_len=[], text_options=[[]].
DefaultArg == [text |-> <<<<"a", "b">>>>, text_min_len |-> <<>>, text_options |-> <<<<>>>>]

ExitArgs == {NotGiven, 0, 1, 2}

\* The lines standard input may hold, each without its newline.
Answers ==
    { <<>>, <<"y">>, <<"Y">>, <<"n">>, <<"N">>, <<" ", "y">>, <<"n", " ">>,
      <<"y", "n">>, <<"m", "a", "y", "b", "e">> }

Stdins == SeqsUpTo(Answers, MaxLines)

\* Standard input of the whole-program runs: empty, one answer, a retry.
FewStdins == {<<>>, <<<<"Y">>>>, <<<<"n">>>>, <<<<"m", "a", "y", "b", "e">>, <<"y">>>>}

Questions == {<<"P">>}
ContinueTexts == {None, <<"t">>}

\* ------------------------------------------------------------------- state
VARIABLES
    debug_counter,  \* messages._debug_counter
    pc,             \* where the program is: "idle" (between facade calls),
                    \* "sys_exit", "ask_msg", "set_format", "input", "reset",
                    \* "return", "exited", "raised"
    call,           \* the facade call in progress or last made
    arg,            \* the arguments the caller passes to the message kinds
    stderr,         \* written to sys.stderr by the call
    stdout,         \* written to sys.stdout by the call
    stdin,          \* the lines not yet read from standard input
    exit_code,      \* the status given to sys.exit, NotGiven while running
    exc,            \* the exception propagating out of the facade, or "none"
    question,       \* ask()'s question argument
    default_yes,    \* ask_continue()'s default_yes
    asks,           \* ask() calls made by the call in progress
    read_lines,     \* the lines input() returned to the call in progress
    result,         \* input_colored()'s local result
    ans,            \* what ask() returned last
    budget,         \* facade calls the caller still makes
    debug_calls,    \* debug() calls made so far
    tag             \* the number rendered in the last debug icon

vars == <<debug_counter, pc, call, arg, stderr, stdout, stdin, exit_code, exc, question, default_yes, asks, read_lines, result, ans, budget, debug_calls, tag>>

askvars == <<question, default_yes, asks, read_lines, result, ans>>

NoCall == [kind |-> "none", icon |-> None, icon_options |-> <<>>, dflt |-> <<>>, blink |-> FALSE, end |-> <<>>, term_len |-> 0, exit_arg |-> NotGiven]

InitCommon ==
    /\ debug_counter = 0
    /\ pc = "idle"
    /\ call = NoCall
    /\ stderr = <<>>
    /\ stdout = <<>>
    /\ exit_code = NotGiven
    /\ exc = "none"
    /\ question = None
    /\ default_yes = FALSE
    /\ asks = 0
    /\ read_lines = <<>>
    /\ result = None
    /\ ans = None
    /\ debug_calls = 0
    /\ tag = 0

\* ------------------------------------------------------- reading a stream
\* What an observer of the streams sees; none of this is the program's code.
IsEscape(e) == e \in Escapes

\* The cells a terminal shows for a stream: each character with the styles in
\* force when it is written (RESET clears them).
RECURSIVE Decode(_, _)
Decode(s, style) ==
    IF s = <<>> THEN <<>>
    ELSE IF Head(s) = RESET THEN Decode(Tail(s), <<>>)
    ELSE IF IsEscape(Head(s)) THEN Decode(Tail(s), Append(style, Head(s)))
    ELSE <<[ch |-> Head(s), style |-> style]>> \o Decode(Tail(s), style)

\* The styles still in force at the end of a stream.
RECURSIVE ActiveStyle(_, _)
ActiveStyle(s, style) ==
    IF s = <<>> THEN style
    ELSE IF Head(s) = RESET THEN ActiveStyle(Tail(s), <<>>)
    ELSE IF IsEscape(Head(s)) THEN ActiveStyle(Tail(s), Append(style, Head(s)))
    ELSE ActiveStyle(Tail(s), style)

Visible(s) == SelectSeq(s, LAMBDA e : ~IsEscape(e))

FirstIndex(v, c) == CHOOSE k \in 1..Len(v) : v[k] = c /\ \A j \in 1..(k - 1) : v[j] /= c

\* The text between the brackets of a rendered icon.
IconText(s) ==
    LET v == Visible(s)
    IN  SubSeq(v, FirstIndex(v, "[") + 1, FirstIndex(v, "]") - 1)

DigitValue(c) == (CHOOSE k \in 1..10 : DigitChars[k] = c) - 1

RECURSIVE ParseNat(_)
ParseNat(ds) ==
    IF ds = <<>> THEN 0
    ELSE 10 * ParseNat(SubSeq(ds, 1, Len(ds) - 1)) + DigitValue(ds[Len(ds)])

\* The number after "DEBUG " in a rendered debug icon.
DebugTag(s) == ParseNat(SubSeq(IconText(s), 7, Len(IconText(s))))

\* ----------------------------------------------------------------- actions
CallRecord(kind, dflt, icon, icon_options, blink, end, tl, exit_arg) ==
    [kind |-> kind, icon |-> icon, icon_options |-> icon_options, dflt |-> dflt, blink |-> blink, end |-> end, term_len |-> tl, exit_arg |-> exit_arg]

\* A facade call begins: the caller is between calls and makes one more.
Begin ==
    /\ pc = "idle"
    /\ budget > 0
    /\ budget' = budget - 1
    /\ stdout' = <<>>
    /\ UNCHANGED <<arg, stdin, exit_code, exc>>

\* A message kind that returns to its caller.
Returns ==
    /\ pc' = "idle"
    /\ UNCHANGED <<askvars, debug_calls, tag>>

\* message(*text, ...) called directly, with no icon or with an icon.
Message ==
    /\ Begin
    /\ \E tl \in TermLens, icon \in {None, <<"*">>}, end \in {<<"LF">>, <<>>} :
         /\ stderr' = message(arg.text, arg.text_min_len, <<>>, arg.text_options, icon, <<>>, FALSE, end, tl)
         /\ call' = CallRecord("message", <<>>, icon, <<>>, FALSE, end, tl, NotGiven)
    /\ Returns
    /\ UNCHANGED debug_counter

Debug ==
    /\ Begin
    /\ debug_counter' = debug_increment(debug_counter)
    /\ \E tl \in TermLens :
         /\ stderr' = message(arg.text, arg.text_min_len, <<PURPLE>>, arg.text_options, debug_icon(debug_counter'), <<PURPLE, REVERSE>>, FALSE, <<"LF">>, tl)
         /\ call' = CallRecord("debug", <<PURPLE>>, debug_icon(debug_counter'), <<PURPLE, REVERSE>>, FALSE, <<"LF">>, tl, NotGiven)
    /\ debug_calls' = debug_calls + 1
    /\ tag' = DebugTag(stderr')
    /\ pc' = "idle"
    /\ UNCHANGED askvars

Info ==
    /\ Begin
    /\ \E tl \in TermLens, blink \in BOOLEAN :
         /\ stderr' = message(arg.text, arg.text_min_len, <<CYAN>>, arg.text_options, <<"*">>, <<CYAN>>, blink, <<"LF">>, tl)
         /\ call' = CallRecord("info", <<CYAN>>, <<"*">>, <<CYAN>>, blink, <<"LF">>, tl, NotGiven)
    /\ Returns
    /\ UNCHANGED debug_counter

Progress ==
    /\ Begin
    /\ \E tl \in TermLens :
         /\ stderr' = message(arg.text, arg.text_min_len, <<DIM, ITALIC>>, arg.text_options, <<" ">>, <<>>, FALSE, <<"CR">>, tl)
         /\ call' = CallRecord("progress", <<DIM, ITALIC>>, <<" ">>, <<>>, FALSE, <<"CR">>, tl, NotGiven)
    /\ Returns
    /\ UNCHANGED debug_counter

Error ==
    /\ Begin
    /\ \E tl \in TermLens, blink \in BOOLEAN :
         /\ stderr' = message(arg.text, arg.text_min_len, <<RED>>, arg.text_options, <<"-">>, <<RED>>, blink, <<"LF">>, tl)
         /\ call' = CallRecord("error", <<RED>>, <<"-">>, <<RED>>, blink, <<"LF">>, tl, NotGiven)
    /\ Returns
    /\ UNCHANGED debug_counter

\* warning() takes text_options and does not hand it to message(), whose
\* additional_text_options keeps its default [[]].
Warning ==
    /\ Begin
    /\ \E tl \in TermLens, blink \in BOOLEAN :
         /\ stderr' = message(arg.text, arg.text_min_len, <<YELLOW>>, <<<<>>>>, <<"!">>, <<YELLOW>>, blink, <<"LF">>, tl)
         /\ call' = CallRecord("warning", <<YELLOW>>, <<"!">>, <<YELLOW>>, blink, <<"LF">>, tl, NotGiven)
    /\ Returns
    /\ UNCHANGED debug_counter

Success ==
    /\ Begin
    /\ \E tl \in TermLens, blink \in BOOLEAN :
         /\ stderr' = message(arg.text, arg.text_min_len, <<GREEN>>, arg.text_options, <<"+">>, <<GREEN>>, blink, <<"LF">>, tl)
         /\ call' = CallRecord("success", <<GREEN>>, <<"+">>, <<GREEN>>, blink, <<"LF">>, tl, NotGiven)
    /\ Returns
    /\ UNCHANGED debug_counter

\* critical_error(): the message() call; sys.exit(exit_code) is the next statement.
CriticalError ==
    /\ Begin
    /\ \E tl \in TermLens, blink \in BOOLEAN, c \in ExitArgs :
         /\ stderr' = message(arg.text, arg.text_min_len, <<RED>>, <<<<>>>>, <<"x">>, <<RED>>, blink, <<"LF">>, tl)
         /\ call' = CallRecord("critical_error", <<RED>>, <<"x">>, <<RED>>, blink, <<"LF">>, tl, c)
    /\ pc' = "sys_exit"
    /\ UNCHANGED <<askvars, debug_calls, tag, debug_counter>>

\* critical_error(): _sys.exit(exit_code).
CriticalErrorExit ==
    /\ pc = "sys_exit"
    /\ pc' = "exited"
    /\ exit_code' = critical_error_exit_code(call.exit_arg)
    /\ UNCHANGED <<debug_counter, call, arg, stderr, stdout, stdin, exc, askvars, budget, debug_calls, tag>>

\* ask(question, end=': ') is called.
Ask ==
    /\ Begin
    /\ \E q \in Questions : question' = q \o <<":", " ">>
    /\ call' = [NoCall EXCEPT !.kind = "ask"]
    /\ stderr' = <<>>
    /\ asks' = 0
    /\ read_lines' = <<>>
    /\ result' = None
    /\ ans' = None
    /\ pc' = "ask_msg"
    /\ UNCHANGED <<debug_counter, default_yes, debug_calls, tag>>

\* ask_continue(text, default_yes) is called: the question is built and the
\* loop entered; its ask(message, end=' ') is the next statement.
AskContinue ==
    /\ Begin
    /\ \E t \in ContinueTexts, yes \in BOOLEAN :
         /\ default_yes' = yes
         /\ question' = ask_continue_message(t, yes) \o <<" ">>
    /\ call' = [NoCall EXCEPT !.kind = "ask_continue"]
    /\ stderr' = <<>>
    /\ asks' = 0
    /\ read_lines' = <<>>
    /\ result' = None
    /\ ans' = None
    /\ pc' = "ask_msg"
    /\ UNCHANGED <<debug_counter, debug_calls, tag>>

\* ask(): the question is rendered with message(); _input_colored is next.
AskMessage ==
    /\ pc = "ask_msg"
    /\ \E tl \in TermLens :
         /\ stderr' = message(<<question>>, <<>>, <<PURPLE>>, <<<<>>>>, <<"?">>, <<PURPLE>>, FALSE, <<>>, tl)
         /\ call' = CallRecord(call.kind, <<PURPLE>>, <<"?">>, <<PURPLE>>, FALSE, <<>>, tl, NotGiven)
    /\ asks' = asks + 1
    /\ stdout' = <<>>
    /\ pc' = "set_format"
    /\ UNCHANGED <<debug_counter, arg, stdin, exit_code, exc, question, default_yes, read_lines, result, ans, budget, debug_calls, tag>>

\* input_colored(): set_format(*format_options, file=_sys.stderr).
InputSetFormat ==
    /\ pc = "set_format"
    /\ stderr' = stderr \o set_format(<<PURPLE, ITALIC>>)
    /\ pc' = "input"
    /\ UNCHANGED <<debug_counter, call, arg, stdout, stdin, exit_code, exc, askvars, budget, debug_calls, tag>>

\* input_colored(): result = input().  A line is there, or standard input is
\* at its end and input() raises EOFError, which nothing in the facade catches.
InputRead ==
    /\ pc = "input"
    /\ \/ /\ stdin /= <<>>
          /\ result' = Head(stdin)
          /\ read_lines' = Append(read_lines, Head(stdin))
          /\ stdin' = Tail(stdin)
          /\ pc' = "reset"
          /\ exc' = exc
       \/ /\ stdin = <<>>
          /\ exc' = "EOFError"
          /\ pc' = "raised"
          /\ UNCHANGED <<result, read_lines, stdin>>
    /\ UNCHANGED <<debug_counter, call, arg, stderr, stdout, exit_code, question, default_yes, asks, ans, budget, debug_calls, tag>>

\* input_colored(): set_format(TextFormat.RESET), whose file is its default,
\* sys.stdout; then return result.
InputReset ==
    /\ pc = "reset"
    /\ stdout' = stdout \o set_format(<<RESET>>)
    /\ pc' = "return"
    /\ UNCHANGED <<debug_counter, call, arg, stderr, stdin, exit_code, exc, askvars, budget, debug_calls, tag>>

\* ask() returns what input_colored() returned; inside ask_continue the loop
\* body then breaks, exits or goes round.
AskReturn ==
    /\ pc = "return"
    /\ ans' = result
    /\ \/ /\ call.kind = "ask"
          /\ pc' = "idle"
          /\ exit_code' = exit_code
       \/ /\ call.kind = "ask_continue"
          /\ ask_continue_decide(result, default_yes) = "break"
          /\ pc' = "idle"
          /\ exit_code' = exit_code
       \/ /\ call.kind = "ask_continue"
          /\ ask_continue_decide(result, default_yes) = "exit"
          /\ pc' = "exited"
          /\ exit_code' = 1
       \/ /\ call.kind = "ask_continue"
          /\ ask_continue_decide(result, default_yes) = "loop"
          /\ pc' = "ask_msg"
          /\ exit_code' = exit_code
    /\ UNCHANGED <<debug_counter, call, arg, stderr, stdout, stdin, exc, question, default_yes, asks, read_lines, result, budget, debug_calls, tag>>

\* ---------------------------------------------------------- specifications
\* The program: every facade operation, one after another.
Init ==
    /\ InitCommon
    /\ arg = DefaultArg
    /\ stdin \in FewStdins
    /\ budget = MaxCalls

Next ==
    \/ Message
    \/ Debug
    \/ Info
    \/ Progress
    \/ Error
    \/ Warning
    \/ Success
    \/ CriticalError
    \/ CriticalErrorExit
    \/ Ask
    \/ AskContinue
    \/ AskMessage
    \/ InputSetFormat
    \/ InputRead
    \/ InputReset
    \/ AskReturn

Spec == Init /\ [][Next]_vars

\* One call of a returning message kind on each argument of Args.
InitMsg ==
    /\ InitCommon
    /\ arg \in Args
    /\ stdin = <<>>
    /\ budget = 1

NextMsg ==
    \/ Message
    \/ Debug
    \/ Info
    \/ Progress
    \/ Error
    \/ Warning
    \/ Success

SpecMsg == InitMsg /\ [][NextMsg]_vars

\* A long run of debug() calls.
InitDebug ==
    /\ InitCommon
    /\ arg = DefaultArg
    /\ stdin = <<>>
    /\ budget = MaxDebugCalls

NextDebug == Debug

SpecDebug == InitDebug /\ [][NextDebug]_vars

\* One prompt, on each content of standard input.
InitAsk ==
    /\ InitCommon
    /\ arg = DefaultArg
    /\ stdin \in Stdins
    /\ budget = 1

NextAsk ==
    \/ Ask
    \/ AskContinue
    \/ AskMessage
    \/ InputSetFormat
    \/ InputRead
    \/ InputReset
    \/ AskReturn

SpecAsk == InitAsk /\ [][NextAsk]_vars

\* A prompt under way runs on: the program is single-threaded and blocks only
\* in input(), which returns a line or raises at the end of standard input.
SpecAskLive == InitAsk /\ [][NextAsk]_vars /\ WF_vars(NextAsk)

\* ------------------------------------------------------------------ claims
IsYes(a) == a \in {<<"y">>, <<"Y">>}
IsNo(a) == a \in {<<"n">>, <<"N">>}
IsOther(a) == a /= <<>> /\ ~IsYes(a) /\ ~IsNo(a)

\* C1: once ask_continue has had an answer a from ask and acted on it, then:
\* if a is "y" in either case, or a is empty and default_yes holds, it has
\* returned normally and the process has not exited; if a is "n" in either
\* case, or a is empty and default_yes does not hold, the process has exited
\* with code 1; no answer is in both cases; and " y", untrimmed, is in neither
\* (the question is asked again).
C1_AskContinueDecision ==
    (call.kind = "ask_continue" /\ ans /= None /\ pc \in {"idle", "exited", "ask_msg"}) =>
        LET yes == IsYes(ans) \/ (ans = <<>> /\ default_yes)
            no == IsNo(ans) \/ (ans = <<>> /\ ~default_yes)
        IN  /\ ~(yes /\ no)
            /\ yes => (pc = "idle" /\ exit_code = NotGiven /\ exc = "none")
            /\ no => (pc = "exited" /\ exit_code = 1)
            /\ (ans = <<" ", "y">>) => (pc = "ask_msg" /\ exit_code = NotGiven)

C1_Witness ==
    /\ call.kind = "ask_continue"
    /\ ans = <<"Y">>
    /\ ~default_yes
    /\ pc = "idle"

\* C3: when input() meets the end of standard input, the step is the one that
\* reads an empty line: no exception leaves the facade and the answer is "".
C3_EndOfInputIsEmptyAnswer ==
    [][(pc = "input" /\ stdin = <<>>) => (exc' = "none" /\ pc' = "reset" /\ result' = <<>>)]_vars

\* C10: once input_colored has returned, the error stream, which received the
\* format sequence, has received the RESET after it and is left unstyled.
C10_ResetOnErrorStream ==
    (pc = "return") =>
        /\ ActiveStyle(stderr, <<>>) = <<>>
        /\ stderr /= <<>>
        /\ stderr[Len(stderr)] = RESET

\* A line of standard input that ask_continue will reach and that decides it:
\* every line before it is neither empty nor "y" nor "n" in either case.
Reaches(k) == k \in 1..Len(stdin) /\ \A j \in 1..(k - 1) : IsOther(stdin[j])

C2_RetryStep ==
    (pc = "return" /\ call.kind = "ask_continue" /\ IsOther(result)) =>
        /\ pc' = "ask_msg"
        /\ exit_code' = NotGiven
        /\ exc' = "none"
        /\ question' = question
        /\ asks' = asks

C2_OneAskPerAnswer ==
    (call.kind = "ask_continue") =>
        /\ \A j \in 1..(Len(read_lines) - 1) : IsOther(read_lines[j])
        /\ pc \in {"set_format", "input", "raised"} => asks = Len(read_lines) + 1
        /\ pc \in {"ask_msg", "reset", "return", "idle", "exited"} => asks = Len(read_lines)
        /\ pc = "input" =>
             SubSeq(Visible(stderr), Len(Visible(stderr)) - Len(question) + 1, Len(Visible(stderr))) = question
        /\ (pc = "ask_msg" /\ ans /= None) => (IsOther(ans) /\ exit_code = NotGiven)

\* C2: in ask_continue an answer that is neither empty nor "y" nor "n" in
\* either case sends the loop round once more, with the same question and no
\* exit: ask has been called once per answer read, plus once while an answer
\* is awaited, whatever their number.  So when standard input holds any run of
\* such answers and then "y", ask_continue returns normally in the end, and
\* when it holds such a run and then "n", the process exits with code 1.
C2_RetryUntilDecided ==
    /\ [][C2_RetryStep]_vars
    /\ []C2_OneAskPerAnswer
    /\ (call.kind = "ask_continue" /\ pc = "ask_msg" /\ asks = 0
            /\ \E k \in 1..Len(stdin) : Reaches(k) /\ IsYes(stdin[k]))
         ~> (call.kind = "ask_continue" /\ pc = "idle" /\ exit_code = NotGiven /\ IsYes(ans))
    /\ (call.kind = "ask_continue" /\ pc = "ask_msg" /\ asks = 0
            /\ \E k \in 1..Len(stdin) : Reaches(k) /\ IsNo(stdin[k]))
         ~> (call.kind = "ask_continue" /\ pc = "exited" /\ exit_code = 1 /\ IsNo(ans))

C2_Witness ==
    /\ call.kind = "ask_continue"
    /\ read_lines = <<<<"m", "a", "y", "b", "e">>, <<"y">>>>
    /\ asks = 2
    /\ pc = "idle"

C4_CounterStep ==
    /\ (debug_counter' /= debug_counter) =>
          /\ pc = "idle"
          /\ call'.kind = "debug"
          /\ debug_calls' = debug_calls + 1
          /\ debug_counter' = debug_counter + 1
    /\ (debug_calls' /= debug_calls) =>
          /\ DebugTag(stderr') = debug_calls'
          /\ DebugTag(stderr') > tag

\* C4: the debug counter starts at 0 and always equals the number of debug
\* calls made so far; a step changes it only by a debug call, which adds
\* exactly 1 before rendering, so that the k-th debug call shows the number k
\* and each debug call shows a larger number than the one before; no other
\* operation (message, info, progress, error, warning, success, critical_error,
\* ask, ask_continue) changes it.
C4_DebugCounter ==
    /\ debug_counter = 0
    /\ [](debug_counter = debug_calls /\ tag = debug_calls)
    /\ [][C4_CounterStep]_vars

C4_Witness ==
    /\ debug_counter = 2
    /\ call.kind = "ask_continue"
    /\ pc = "idle"

DebugWord == <<"D", "E", "B", "U", "G", " ">>

DebugDigits == SubSeq(IconText(stderr), Len(DebugWord) + 1, Len(IconText(stderr)))

AllDigits(ds) == \A k \in 1..Len(ds) : \E d \in 1..10 : DigitChars[d] = ds[k]

\* C5 as stated: after every debug call the icon text is DEBUG, one space and
\* the counter written with exactly 4 digits.
C5_ExactlyFourDigits ==
    (call.kind = "debug") =>
        /\ SubSeq(IconText(stderr), 1, Len(DebugWord)) = DebugWord
        /\ AllDigits(DebugDigits)
        /\ ParseNat(DebugDigits) = debug_counter
        /\ Len(DebugDigits) = 4

\* C5 as amended: after every debug call the icon text is DEBUG, one space and
\* the counter in decimal, zero-padded on the left to at least 4 digits:
\* exactly 4 digits up to the 9999th call, and all the counter's digits, with
\* no leading zero, from the 10000th call on.
C5_AtLeastFourDigits ==
    (call.kind = "debug") =>
        /\ SubSeq(IconText(stderr), 1, Len(DebugWord)) = DebugWord
        /\ AllDigits(DebugDigits)
        /\ ParseNat(DebugDigits) = debug_counter
        /\ Len(DebugDigits) >= 4
        /\ debug_counter <= 9999 => Len(DebugDigits) = 4
        /\ debug_counter > 9999 => (Len(DebugDigits) = 5 /\ DebugDigits[1] /= "0")

C5_Witness ==
    /\ call.kind = "debug"
    /\ debug_counter = 10000
    /\ DebugDigits = <<"1", "0", "0", "0", "0">>

RECURSIVE JoinSegments(_)
JoinSegments(text) ==
    IF text = <<>> THEN <<>>
    ELSE IF Len(text) = 1 THEN text[1]
    ELSE text[1] \o <<" ">> \o JoinSegments(Tail(text))

NamedKinds == {"debug", "info", "progress", "error", "warning", "success"}

C9_MessageEmitted ==
    /\ arg.text_min_len = <<>>
    /\ Visible(stderr) = <<"CR">> \o Spaces(call.term_len) \o <<"CR">>
                         \o <<"[", "x", "]", " ">> \o JoinSegments(arg.text) \o <<"LF">>
    /\ ActiveStyle(stderr, <<>>) = <<>>

C9_ExitStep ==
    (exit_code' /= exit_code /\ call.kind = "critical_error") =>
        /\ pc = "sys_exit"
        /\ C9_MessageEmitted
        /\ stderr' = stderr
        /\ pc' = "exited"

C9_State ==
    /\ (call.kind = "critical_error") =>
          /\ pc \in {"sys_exit", "exited"}
          /\ C9_MessageEmitted
          /\ pc = "sys_exit" => exit_code = NotGiven
          /\ pc = "exited" =>
                exit_code = (IF call.exit_arg = NotGiven THEN 1 ELSE call.exit_arg)
    /\ (call.kind \in NamedKinds) => (pc = "idle" /\ exit_code = NotGiven)

\* C9: critical_error has written its whole message (icon, segments,
\* terminator) before the process exits, the exit is its next step and carries
\* the exit code given (1 when none is given), and it never returns to its
\* caller; debug, info, progress, error, warning and success all return and
\* never exit.
C9_CriticalErrorExits ==
    /\ []C9_State
    /\ [][C9_ExitStep]_vars

C9_Witness ==
    /\ call.kind = "critical_error"
    /\ pc = "exited"
    /\ call.exit_arg = 2
    /\ exit_code = 2

\* The layout of a rendered message, as the terminal shows it: the cleared
\* line, the bracketed icon and its space, then each segment followed by its
\* separator and its padding.
SegLen(i) == Len(arg.text[i])

SegSep(i) == IF i < Len(arg.text) THEN 1 ELSE 0

SegPad(i) ==
    IF i <= Len(arg.text_min_len) /\ arg.text_min_len[i] > SegLen(i)
    THEN arg.text_min_len[i] - SegLen(i)
    ELSE 0

IconCells == IF call.icon = None THEN 0 ELSE Len(call.icon) + 3

RECURSIVE SegStart(_)
SegStart(i) ==
    IF i = 1 THEN call.term_len + 2 + IconCells
    ELSE SegStart(i - 1) + SegLen(i - 1) + SegSep(i - 1) + SegPad(i - 1)

TextEnd ==
    IF arg.text = <<>> THEN call.term_len + 2 + IconCells
    ELSE SegStart(Len(arg.text)) + SegLen(Len(arg.text)) + SegPad(Len(arg.text))

\* C6: in every rendered message, segment i's own characters are followed by
\* its separator (one space, none after the last segment) and then by exactly
\* W - L unstyled spaces when text_min_len gives it a width W above its
\* unstyled length L, and by no padding when W <= L or text_min_len has no
\* entry for it; the next segment's text, or the terminator, comes right after.
C6_Padding ==
    (call.kind /= "none") =>
        LET d == Decode(stderr, <<>>)
        IN  /\ Len(d) = TextEnd + Len(call.end)
            /\ \A k \in 1..Len(call.end) : d[TextEnd + k].ch = call.end[k]
            /\ \A i \in 1..Len(arg.text) :
                 /\ \A k \in 1..SegLen(i) : d[SegStart(i) + k].ch = arg.text[i][k]
                 /\ \A k \in 1..(SegSep(i) + SegPad(i)) :
                      d[SegStart(i) + SegLen(i) + k] = [ch |-> " ", style |-> <<>>]

C6_Witness ==
    /\ call.kind = "info"
    /\ arg.text = <<<<>>, <<"b", "c">>>>
    /\ arg.text_min_len = <<2, 1>>
    /\ arg.text_options = <<<<BOLD>>>>

\* C7 as stated: message with no icon and no text segments writes the
\* terminator to the stream and nothing else.
C7_OnlyTerminator ==
    (call.kind = "message" /\ call.icon = None /\ arg.text = <<>>) => stderr = call.end

\* C7 as amended: message with no icon and no text segments writes the
\* line-clearing sequence (a carriage return, one space per terminal column, a
\* carriage return), then the reset sequence of an empty styled text, then the
\* terminator, and nothing else.
C7_ClearLineResetTerminator ==
    (call.kind = "message" /\ call.icon = None /\ arg.text = <<>>) =>
        stderr = <<"CR">> \o Spaces(call.term_len) \o <<"CR", RESET>> \o call.end

C7_Witness ==
    /\ call.kind = "message"
    /\ call.icon = None
    /\ arg.text = <<>>
    /\ call.end = <<"LF">>
    /\ call.term_len = 2

SegOptions(i) == IF i <= Len(arg.text_options) THEN arg.text_options[i] ELSE <<>>

\* C8: for debug, info, progress, error, warning and success, every character
\* of segment i is shown with the kind's default text styles followed by
\* text_options[i] when text_options has an entry for i, and with the default
\* styles alone otherwise; the segments come in argument order, one space
\* between them and none after the last.
C8_TextOptionsPerSegment ==
    (call.kind \in NamedKinds) =>
        LET d == Decode(stderr, <<>>)
        IN  \A i \in 1..Len(arg.text) :
              /\ \A k \in 1..SegLen(i) :
                   d[SegStart(i) + k] = [ch |-> arg.text[i][k], style |-> call.dflt \o SegOptions(i)]
              /\ i < Len(arg.text) => d[SegStart(i) + SegLen(i) + 1].ch = " "

====
